---- MODULE Spec2Model ----
(***************************************************************************)
(* Model of the polygon operations of src/src/polygon.rs (union,           *)
(* difference, fixed_difference, convex_hull) with the primitives of       *)
(* src/src/point.rs and src/src/intersection.rs.                           *)
(*                                                                         *)
(* f64 values are modelled as extended rationals [n, d]: a finite value is *)
(* n/d in lowest terms with d > 0; d = 0 is a non-finite value (n = 1      *)
(* +inf, n = -1 -inf, n = 0 NaN).  On the coordinate grid Coord every      *)
(* quotient taken by intersection() has a power of two as denominator, so  *)
(* every f64 operation of the modelled runs is exact and the rational is   *)
(* the f64 value itself.  -0.0 and 0.0 compare equal in every comparison   *)
(* the program makes and are one value here; the sign of an infinite       *)
(* quotient x/0 therefore follows the numerator only, and the program      *)
(* reads it through is_finite alone.                                       *)
(***************************************************************************)
EXTENDS Integers, Sequences, FiniteSets, TLC

\* Coordinates of the input vertices.
Coord == {0, 1, 2}
\* Largest number of vertices of self in union and difference runs and of
\* other in difference and fixed_difference runs.
MaxLen == 3
\* Largest number of vertices of other in union runs.
MaxUnionOther == 2
\* Largest number of vertices of self in fixed_difference runs.
MaxFixedSelf == 2
\* Largest number of input points of a convex_hull run.
MaxHullLen == 5

(***************************** f64 arithmetic ******************************)
Abs(a) == IF a < 0 THEN -a ELSE a

RECURSIVE GCD(_, _)
GCD(a, b) == IF b = 0 THEN a ELSE GCD(b, a % b)

\* n/d (d # 0) in lowest terms with a positive denominator; g = gcd(|n|, |d|).
Reduce(n, d, g) ==
  IF d < 0 THEN [n |-> -(n \div g), d |-> -(d \div g)]
  ELSE [n |-> n \div g, d |-> d \div g]

Norm(n, d) == IF d = 1 THEN [n |-> n, d |-> 1] ELSE Reduce(n, d, GCD(Abs(n), Abs(d)))

F(k) == [n |-> k, d |-> 1]
NAN == [n |-> 0, d |-> 0]
INFINITY == [n |-> 1, d |-> 0]
NEG_INFINITY == [n |-> -1, d |-> 0]

is_finite(v) == v.d # 0

FNeg(a) == [n |-> -a.n, d |-> a.d]

FSub(a, b) ==
  IF a.d = 1 /\ b.d = 1 THEN [n |-> a.n - b.n, d |-> 1]
  ELSE IF is_finite(a) /\ is_finite(b)
  THEN Norm(a.n * b.d - b.n * a.d, a.d * b.d)
  ELSE IF a = NAN \/ b = NAN THEN NAN
  ELSE IF is_finite(b) THEN a
  ELSE IF is_finite(a) THEN FNeg(b)
  ELSE IF a = b THEN NAN ELSE a

FAdd(a, b) == FSub(a, FNeg(b))

FMul(a, b) ==
  IF a.d = 1 /\ b.d = 1 THEN [n |-> a.n * b.n, d |-> 1]
  ELSE IF is_finite(a) /\ is_finite(b) THEN Norm(a.n * b.n, a.d * b.d)
  ELSE IF a = NAN \/ b = NAN \/ a.n = 0 \/ b.n = 0 THEN NAN
  ELSE IF (a.n < 0) = (b.n < 0) THEN INFINITY ELSE NEG_INFINITY

FDiv(a, b) ==
  IF is_finite(a) /\ is_finite(b)
  THEN IF b.n # 0 THEN Norm(a.n * b.d, a.d * b.n)
       ELSE IF a.n = 0 THEN NAN
       ELSE IF a.n > 0 THEN INFINITY ELSE NEG_INFINITY
  ELSE IF a = NAN \/ b = NAN THEN NAN
  ELSE IF is_finite(a) THEN F(0)
  ELSE IF ~is_finite(b) THEN NAN
  ELSE IF (a.n < 0) = (b.n < 0) THEN INFINITY ELSE NEG_INFINITY

FLt(a, b) ==
  IF a.d > 0 /\ b.d > 0 THEN a.n * b.d < b.n * a.d
  ELSE IF a = NAN \/ b = NAN THEN FALSE
  ELSE IF ~is_finite(a) /\ ~is_finite(b) THEN a.n < b.n
  ELSE IF ~is_finite(a) THEN a.n < 0
  ELSE IF ~is_finite(b) THEN b.n > 0
  ELSE a.n * b.d < b.n * a.d

FEq(a, b) == a.n = b.n /\ a.d = b.d /\ (a.d # 0 \/ a.n # 0)

FLe(a, b) == FLt(a, b) \/ FEq(a, b)

(********************************* Point ***********************************)
Point(x, y) == [x |-> x, y |-> y]

\* impl Sub for Point
sub(self, other) == Point(FSub(self.x, other.x), FSub(self.y, other.y))

\* Point::cross
cross(self, other) == FSub(FMul(self.x, other.y), FMul(self.y, other.x))

\* impl Ord for Point
cmp(self, other) ==
  IF FLt(self.x, other.x) THEN "Less"
  ELSE IF FLt(other.x, self.x) THEN "Greater"
  ELSE IF FLt(self.y, other.y) THEN "Less"
  ELSE IF FLt(other.y, self.y) THEN "Greater"
  ELSE "Equal"

\* Iteration order of a BTreeSet<Point>: ascending under cmp, least first.
RECURSIVE BTreeIter(_)
BTreeFrom(S, least) == <<least>> \o BTreeIter(S \ {least})

BTreeIter(S) ==
  IF S = {} THEN <<>>
  ELSE BTreeFrom(S, CHOOSE a \in S : \A b \in S : cmp(b, a) # "Less")

\* One step of the stable sort by y: p goes after the k elements whose y is
\* not greater than p's.
InsertAt(sorted, p, k) ==
  SubSeq(sorted, 1, k) \o <<p>> \o SubSeq(sorted, k + 1, Len(sorted))

InsertByY(sorted, p) ==
  InsertAt(sorted, p,
           Cardinality({i \in 1..Len(sorted) : ~FLt(p.y, sorted[i].y)}))

\* points.sort_by(|point1, point2| point1.y.partial_cmp(&point2.y).unwrap())
RECURSIVE sort_by_y(_)
sort_by_y(s) ==
  IF s = <<>> THEN <<>>
  ELSE InsertByY(sort_by_y(SubSeq(s, 1, Len(s) - 1)), s[Len(s)])

Range(s) == {s[i] : i \in 1..Len(s)}

(***************************** intersection ********************************)
\* Polygon::edges
edges(points) ==
  [i \in 1..Len(points) |->
     [p1 |-> points[i], p2 |-> points[(i % Len(points)) + 1]]]

\* The non-vertical branch of intersection: b = y1 - m * x1, x = (y - b) / m.
line_xTimes(m, x1, y1, y) == FMul(FSub(y, FSub(y1, FMul(m, x1))), m)

line_x(m, x1, y1, y) == FDiv(FSub(y, FSub(y1, FMul(m, x1))), m)

\* intersection(segment, y) -> (x, y)
intersection(segment, y) ==
  IF FEq(segment.p1.x, segment.p2.x) THEN <<segment.p1.x, y>>
  ELSE <<line_x(FDiv(FSub(segment.p2.y, segment.p1.y),
                     FSub(segment.p2.x, segment.p1.x)),
                segment.p1.x, segment.p1.y, y),
         y>>

\* The BTreeSet `intersections` a scanline builds from the edges of a polygon:
\* the finite x of every edge, as points at height y.
ScanEdges(points, y) ==
  {Point(x, y) :
     x \in {v \in {intersection(e, y)[1] : e \in Range(edges(points))} :
              is_finite(v)}}

\* f64::min and f64::max
fmin(a, b) == IF a = NAN THEN b ELSE IF FLt(b, a) THEN b ELSE a

fmax(a, b) == IF a = NAN THEN b ELSE IF FLt(a, b) THEN b ELSE a

\* Polygon::bounding_box -> (min_x, min_y, max_x, max_y)
RECURSIVE bounding_box(_)
bounding_box(points) ==
  IF points = <<>> THEN <<INFINITY, INFINITY, NEG_INFINITY, NEG_INFINITY>>
  ELSE <<fmin(bounding_box(SubSeq(points, 1, Len(points) - 1))[1],
              points[Len(points)].x),
         fmin(bounding_box(SubSeq(points, 1, Len(points) - 1))[2],
              points[Len(points)].y),
         fmax(bounding_box(SubSeq(points, 1, Len(points) - 1))[3],
              points[Len(points)].x),
         fmax(bounding_box(SubSeq(points, 1, Len(points) - 1))[4],
              points[Len(points)].y)>>

(******************************** state ************************************)
VARIABLES
  self,        \* points of the polygon the operation is called on
  other,       \* points of the argument polygon
  pc,          \* position in the running operation
  result,      \* the BTreeSet `result` of union/difference/fixed_difference
  points,      \* the y-sorted vector the loop iterates over
  idx,         \* 1-based position of the loop in `points`
  y,           \* the y of the current scanline
  inside,      \* the inside/outside flag
  polygons,    \* the vector of polygons fixed_difference accumulates
  emitted_by,  \* for each element of `polygons`, the push that appended it
  hull,        \* the Vec `result` of convex_hull
  n,           \* the bound `n` of the upper-hull loop
  lower,       \* history: `result` as the lower-hull loop left it
  out          \* the returned value

vars == <<self, other, pc, result, points, idx, y, inside, polygons,
          emitted_by, hull, n, lower, out>>

Grid == {Point(F(a), F(b)) : a \in Coord, b \in Coord}

\* Every point sequence of at most k vertices on the grid.
Polys(k) == UNION {[1..m -> Grid] : m \in 0..k}

InitCommon ==
  /\ pc = "start"
  /\ result = {}
  /\ points = <<>>
  /\ idx = 1
  /\ y = NEG_INFINITY
  /\ inside = FALSE
  /\ polygons = <<>>
  /\ emitted_by = <<>>
  /\ hull = <<>>
  /\ n = 0
  /\ lower = <<>>
  /\ out = <<>>

(******************************** union ************************************)
UnionSeed ==
  /\ pc = "start"
  /\ result' = Range(self) \cup Range(other)
  /\ \E ordered \in {BTreeIter(Range(self) \cup Range(other))} :
       points' = sort_by_y(ordered)
  /\ y' = NEG_INFINITY
  /\ idx' = 1
  /\ pc' = "loop"
  /\ UNCHANGED <<self, other, inside, polygons, emitted_by, hull, n, lower, out>>

UnionScan ==
  /\ pc = "loop"
  /\ idx <= Len(points)
  /\ LET point == points[idx]
     IN  IF ~FEq(point.y, y)
         THEN /\ y' = point.y
              /\ result' = result \cup ScanEdges(self, point.y)
                                  \cup ScanEdges(other, point.y)
         ELSE UNCHANGED <<y, result>>
  /\ idx' = idx + 1
  /\ UNCHANGED <<self, other, pc, points, inside, polygons, emitted_by,
                 hull, n, lower, out>>

UnionReturn ==
  /\ pc = "loop"
  /\ idx > Len(points)
  /\ out' = BTreeIter(result)
  /\ pc' = "done"
  /\ UNCHANGED <<self, other, result, points, idx, y, inside, polygons,
                 emitted_by, hull, n, lower>>

InitUnion ==
  /\ self \in Polys(MaxLen)
  /\ other \in Polys(MaxUnionOther)
  /\ InitCommon

\* union(P, P)
InitUnionSelf ==
  /\ self \in Polys(MaxLen)
  /\ other = self
  /\ InitCommon

NextUnion == UnionSeed \/ UnionScan \/ UnionReturn

SpecUnion == InitUnion /\ [][NextUnion]_vars

SpecUnionSelf == InitUnionSelf /\ [][NextUnion]_vars

(****************************** difference *********************************)
\* Polygon::centroid
RECURSIVE x_sum(_)
x_sum(s) == IF s = <<>> THEN F(0) ELSE FAdd(x_sum(Tail(s)), Head(s).x)

RECURSIVE y_sum(_)
y_sum(s) == IF s = <<>> THEN F(0) ELSE FAdd(y_sum(Tail(s)), Head(s).y)

centroid(s) == Point(FDiv(x_sum(s), F(Len(s))), FDiv(y_sum(s), F(Len(s))))

\* f64::partial_cmp
partial_cmp(a, b) ==
  IF FLt(a, b) THEN "Less"
  ELSE IF FLt(b, a) THEN "Greater"
  ELSE IF FEq(a, b) THEN "Equal"
  ELSE "None"

\* The comparator of the counter-clockwise sort:
\* (*point2 - centroid).cross(*point1 - centroid).partial_cmp(&0.0)
ccw_cmp(point1, point2, c) ==
  partial_cmp(cross(sub(point2, c), sub(point1, c)), F(0))

\* points.sort_by(ccw_cmp).unwrap() panics when a comparison yields None.  A
\* slice of fewer than two points is never compared.
ccw_sort_panics(S, c) ==
  \E p1 \in S : \E p2 \in S \ {p1} : ccw_cmp(p1, p2, c) = "None"

\* if intersections.len() % 2 == 0 { inside = !inside; }
toggleOdd(flag, intersections) ==
  IF Cardinality(intersections) % 2 = 1 THEN ~flag ELSE flag

toggle(flag, intersections) ==
  IF Cardinality(intersections) % 2 = 0 THEN ~flag ELSE flag

\* The vertices of self in ascending order: what the BTreeSet seeded from
\* self.points holds.  difference and fixed_difference read self.points only
\* through that set and through centroid().
AscendingPolys(k) == {BTreeIter(S) : S \in {T \in SUBSET Grid : Cardinality(T) <= k}}

DiffSeed ==
  /\ pc = "start"
  /\ result' = Range(self)
  /\ \E ordered \in {BTreeIter(Range(self))} : points' = sort_by_y(ordered)
  /\ y' = NEG_INFINITY
  /\ inside' = FALSE
  /\ idx' = 1
  /\ pc' = "loop"
  /\ UNCHANGED <<self, other, polygons, emitted_by, hull, n, lower, out>>

DiffScan ==
  /\ pc = "loop"
  /\ idx <= Len(points)
  /\ \E flag \in {IF ~FEq(points[idx].y, y)
                   THEN toggle(inside, ScanEdges(other, points[idx].y))
                   ELSE inside} :
       /\ inside' = flag
       /\ result' = IF flag THEN result \ {points[idx]} ELSE result
  /\ y' = points[idx].y
  /\ idx' = idx + 1
  /\ UNCHANGED <<self, other, pc, points, polygons, emitted_by, hull, n, lower, out>>

\* The returned polygon holds the points of `result` in the order the
\* counter-clockwise sort leaves them.  The comparator is no total order, so
\* sort_by's contract leaves that order open: `out` is the set of points.
DiffReturn ==
  /\ pc = "loop"
  /\ idx > Len(points)
  /\ IF ccw_sort_panics(result, centroid(self))
     THEN pc' = "panic" /\ out' = out
     ELSE pc' = "done" /\ out' = result
  /\ UNCHANGED <<self, other, result, points, idx, y, inside, polygons,
                 emitted_by, hull, n, lower>>

InitDifference ==
  /\ self \in AscendingPolys(MaxLen)
  /\ other \in Polys(MaxLen)
  /\ InitCommon

NextDifference == DiffSeed \/ DiffScan \/ DiffReturn

SpecDifference == InitDifference /\ [][NextDifference]_vars

(*************************** fixed_difference ******************************)
FixSeed ==
  /\ pc = "start"
  /\ result' = Range(self) \cup Range(other)
  /\ \E ordered \in {BTreeIter(Range(self) \cup Range(other))} :
       points' = sort_by_y(ordered)
  /\ polygons' = <<>>
  /\ emitted_by' = <<>>
  /\ y' = NEG_INFINITY
  /\ inside' = FALSE
  /\ idx' = 1
  /\ pc' = "loop"
  /\ UNCHANGED <<self, other, hull, n, lower, out>>

\* result.clear() after a flush
clearedKeep(S) == S

cleared(S) == {}

\* if !result.is_empty() guarding the remaining-points push
has_remainingAlways(S) == TRUE

has_remaining(S) == S # {}

\* The block of a new scanline (lines 198-242) with `intersections` built
\* and `flag` the updated inside: removal of the point, or the flush, whose
\* counter-clockwise sort panics when it unwraps None.
ScanlineBlock(point, intersections, flag) ==
  IF flag
  THEN [inside |-> flag, result |-> result \ {point}, polygons |-> polygons,
        emitted_by |-> emitted_by, panicked |-> FALSE]
  ELSE IF intersections # {}
  THEN [inside |-> flag, result |-> cleared(result),
        polygons |-> Append(polygons, result),
        emitted_by |-> Append(emitted_by, "flush"),
        panicked |-> ccw_sort_panics(result, centroid(self))]
  ELSE [inside |-> flag, result |-> result, polygons |-> polygons,
        emitted_by |-> emitted_by, panicked |-> FALSE]

Scanline(point, intersections) ==
  ScanlineBlock(point, intersections, toggle(inside, intersections))

\* The remaining-points block (lines 244-260), run in every iteration on the
\* state s the scanline block leaves.
RemainingBlock(s) ==
  IF ~s.panicked /\ has_remaining(s.result)
  THEN [s EXCEPT !.polygons = Append(@, s.result),
                 !.emitted_by = Append(@, "rest"),
                 !.panicked = ccw_sort_panics(s.result, centroid(self))]
  ELSE s

\* One iteration of the loop over `points`.
FixBody(point) ==
  RemainingBlock(
    IF ~FEq(point.y, y) THEN Scanline(point, ScanEdges(other, point.y))
    ELSE [inside |-> inside, result |-> result, polygons |-> polygons,
          emitted_by |-> emitted_by, panicked |-> FALSE])

\* One iteration of the loop; a panic of a sort ends the call.
FixScan ==
  /\ pc = "loop"
  /\ idx <= Len(points)
  /\ \E s \in {FixBody(points[idx])} :
       IF s.panicked
       THEN /\ pc' = "panic"
            /\ UNCHANGED <<result, idx, y, inside, polygons, emitted_by>>
       ELSE /\ inside' = s.inside
            /\ result' = s.result
            /\ polygons' = s.polygons
            /\ emitted_by' = s.emitted_by
            /\ y' = points[idx].y
            /\ idx' = idx + 1
            /\ pc' = pc
  /\ UNCHANGED <<self, other, points, hull, n, lower, out>>

FixReturn ==
  /\ pc = "loop"
  /\ idx > Len(points)
  /\ out' = polygons
  /\ pc' = "done"
  /\ UNCHANGED <<self, other, result, points, idx, y, inside, polygons,
                 emitted_by, hull, n, lower>>

InitFixed ==
  /\ self \in AscendingPolys(MaxFixedSelf)
  /\ other \in Polys(MaxLen)
  /\ InitCommon

NextFixed == FixSeed \/ FixScan \/ FixReturn

SpecFixed == InitFixed /\ [][NextFixed]_vars

(****************************** convex_hull ********************************)
\* (result[len - 2] - result[len - 1]).cross(*point - result[len - 1]) <= 0.0
turnStrict(s, point) ==
  FLt(cross(sub(s[Len(s) - 1], s[Len(s)]), sub(point, s[Len(s)])), F(0))

turn(s, point) ==
  FLe(cross(sub(s[Len(s) - 1], s[Len(s)]), sub(point, s[Len(s)])), F(0))

\* let n = result.len() + 1;
upper_boundLow(s) == 2

upper_bound(s) == Len(s) + 1

HullSort ==
  /\ pc = "start"
  /\ points' = sort_by_y(self)
  /\ hull' = <<>>
  /\ idx' = 1
  /\ pc' = "lower"
  /\ UNCHANGED <<self, other, result, y, inside, polygons, emitted_by, n, lower, out>>

HullLowerPop ==
  /\ pc = "lower"
  /\ idx <= Len(points)
  /\ Len(hull) >= 2
  /\ turn(hull, points[idx])
  /\ hull' = SubSeq(hull, 1, Len(hull) - 1)
  /\ UNCHANGED <<self, other, pc, result, points, idx, y, inside, polygons,
                 emitted_by, n, lower, out>>

HullLowerPush ==
  /\ pc = "lower"
  /\ idx <= Len(points)
  /\ ~(Len(hull) >= 2 /\ turn(hull, points[idx]))
  /\ hull' = Append(hull, points[idx])
  /\ idx' = idx + 1
  /\ UNCHANGED <<self, other, pc, result, points, y, inside, polygons,
                 emitted_by, n, lower, out>>

\* The upper loop runs over points.iter().rev(): idx counts down.
HullUpperBegin ==
  /\ pc = "lower"
  /\ idx > Len(points)
  /\ n' = upper_bound(hull)
  /\ lower' = hull
  /\ idx' = Len(points)
  /\ pc' = "upper"
  /\ UNCHANGED <<self, other, result, points, y, inside, polygons,
                 emitted_by, hull, out>>

HullUpperPop ==
  /\ pc = "upper"
  /\ idx >= 1
  /\ Len(hull) >= n
  /\ turn(hull, points[idx])
  /\ hull' = SubSeq(hull, 1, Len(hull) - 1)
  /\ UNCHANGED <<self, other, pc, result, points, idx, y, inside, polygons,
                 emitted_by, n, lower, out>>

HullUpperPush ==
  /\ pc = "upper"
  /\ idx >= 1
  /\ ~(Len(hull) >= n /\ turn(hull, points[idx]))
  /\ hull' = Append(hull, points[idx])
  /\ idx' = idx - 1
  /\ UNCHANGED <<self, other, pc, result, points, y, inside, polygons,
                 emitted_by, n, lower, out>>

HullReturn ==
  /\ pc = "upper"
  /\ idx < 1
  /\ out' = hull
  /\ pc' = "done"
  /\ UNCHANGED <<self, other, result, points, idx, y, inside, polygons,
                 emitted_by, hull, n, lower>>

InitHull ==
  /\ self \in Polys(MaxHullLen)
  /\ other = <<>>
  /\ InitCommon

NextHull ==
  \/ HullSort
  \/ HullLowerPop
  \/ HullLowerPush
  \/ HullUpperBegin
  \/ HullUpperPop
  \/ HullUpperPush
  \/ HullReturn

SpecHull == InitHull /\ [][NextHull]_vars

(************************* claims: convex_hull ******************************)
\* Sign of the turn p -> s -> t: positive when t is left of the line p -> s.
Side(p, s, t) == cross(sub(s, p), sub(t, p)).n

Dot(p, s, t) ==
  FAdd(FMul(FSub(s.x, p.x), FSub(t.x, p.x)),
       FMul(FSub(s.y, p.y), FSub(t.y, p.y))).n

\* p lies strictly inside the convex hull of S: every line through p and
\* another point of S has points of S strictly on both of its sides.
StrictlyInside(p, S) ==
  /\ S \ {p} # {}
  /\ \A s \in S \ {p} :
       /\ \E t \in S : Side(p, s, t) > 0
       /\ \E t \in S : Side(p, s, t) < 0

\* p lies outside the closed convex hull of T: some s in T has all of T on
\* the closed left of the ray p -> s, and what is on its line is on the ray.
OutsideHull(p, T) ==
  \/ T = {}
  \/ \E s \in T :
       /\ s # p
       /\ \A t \in T : \/ Side(p, s, t) > 0
                       \/ Side(p, s, t) = 0 /\ Dot(p, s, t) > 0

\* Distinct points, each a strict vertex of the convex hull of all of them.
ConvexPosition(s) ==
  /\ \A i \in 1..Len(s) : \A j \in 1..Len(s) : i # j => s[i] # s[j]
  /\ \A p \in Range(s) : OutsideHull(p, Range(s) \ {p})

Others(s, i) == {s[j] : j \in (1..Len(s)) \ {i}}

\* C3: a point of the input that lies strictly inside the convex hull of the
\* other input points is not in the sequence convex_hull returns.
C3_InteriorExcluded ==
  pc = "done" =>
    \A i \in 1..Len(self) :
      StrictlyInside(self[i], Others(self, i)) => self[i] \notin Range(out)

\* C4: for distinct input points in convex position, in any order, the
\* returned sequence is each input point exactly once, followed by one
\* closing point that repeats the first.
C4_ConvexPositionKept ==
  (pc = "done" /\ self # <<>> /\ ConvexPosition(self)) =>
    /\ Len(out) = Len(self) + 1
    /\ Range(SubSeq(out, 1, Len(self))) = Range(self)
    /\ out[Len(out)] = out[1]

MeetX(e, yy) ==
  IF e.p1.x = e.p2.x THEN {e.p1.x}
  ELSE IF e.p1.y = e.p2.y THEN {}
  ELSE {Norm(e.p1.x.n * (e.p2.y.n - e.p1.y.n)
               + (yy.n - e.p1.y.n) * (e.p2.x.n - e.p1.x.n),
             e.p2.y.n - e.p1.y.n)}

Vertices == Range(self) \cup Range(other)

Crossings ==
  {Point(x, yy) : <<x, yy>> \in
     UNION {MeetX(e, v) \X {v} :
              <<e, v>> \in (Range(edges(self)) \cup Range(edges(other)))
                           \X {p.y : p \in Vertices}}}

\* x-then-y order
Before(a, b) == FLt(a.x, b.x) \/ (a.x = b.x /\ FLt(a.y, b.y))

\* C2: union(P, P) returns exactly the vertices of P.
C2_UnionSelfIsVertices == pc = "done" => Range(out) = Range(self)

BoxesDisjoint(a, b) ==
  \/ FLt(a[3], b[1])
  \/ FLt(b[3], a[1])
  \/ FLt(a[4], b[2])
  \/ FLt(b[4], a[2])

\* C1: when other has no vertices, or its bounding box is disjoint from
\* self's, difference returns exactly the vertices of self.
C1_DifferenceDisjointKeepsAll ==
  (pc = "done" /\ BoxesDisjoint(bounding_box(self), bounding_box(other)))
    => out = Range(self)

\* Edges of polygon q with a finite intersection at height yy.
FiniteEdges(q, yy) ==
  {i \in 1..Len(q) : is_finite(intersection(edges(q)[i], yy)[1])}

\* Number of edges with a finite intersection, and number of distinct
\* intersection points.
EdgeCount(q, yy) == Cardinality(FiniteEdges(q, yy))

PointCount(q, yy) ==
  Cardinality({intersection(edges(q)[i], yy)[1] : i \in FiniteEdges(q, yy)})

\* Both counts at every height of a vertex of self.
EdgeCounts == [v \in {p.y : p \in Range(self)} |-> EdgeCount(other, v)]

PointCounts == [v \in {p.y : p \in Range(self)} |-> PointCount(other, v)]

\* The flag at scanline yy of a sweep, in ascending order, over the heights
\* counts is defined on: it starts false and toggles at each height whose
\* count is even.
FlagAt(counts, yy) ==
  Cardinality({v \in DOMAIN counts : FLe(v, yy) /\ counts[v] % 2 = 0}) % 2 = 1

\* C6 as stated: the flag toggles when the number of edges of other with a
\* finite intersection is even; the result is the vertices of self at
\* scanlines whose flag is false.
C6_DifferenceByEdgeCount ==
  pc = "done" => out = {p \in Range(self) : ~FlagAt(EdgeCounts, p.y)}

\* C6 amended: the flag toggles when the number of distinct finite
\* intersection points of the scanline with the edges of other is even.
C6_DifferenceByPointCount ==
  pc = "done" => out = {p \in Range(self) : ~FlagAt(PointCounts, p.y)}

\* A run with a triangle as other in which two vertices of self on one
\* scanline were removed, a vertex on another scanline was kept, and at some
\* scanline two edges of other met in one point.
C6_Witness ==
  /\ pc = "done"
  /\ Cardinality(Range(other)) = 3
  /\ \E p \in Range(self) : \E q \in Range(self) :
       p # q /\ p.y = q.y /\ p \notin out /\ q \notin out
  /\ out # {}
  /\ \E p \in Range(self) : EdgeCounts[p.y] # PointCounts[p.y]

(*********************** claims: fixed_difference **************************)
\* C7: a point visited while the inside flag is true is removed from the
\* result set, also when it is not the first point of its scanline.
C7_RemovedWhileInside ==
  [][(pc = "loop" /\ pc' = "loop" /\ idx' = idx + 1 /\ inside')
       => points[idx] \notin result']_vars

\* C9 as stated: no returned polygon has an empty point list.
C9_NoEmptyPolygon ==
  pc = "done" => \A i \in 1..Len(out) : out[i] # {}

\* C9 amended: a polygon the remaining-points block appends has at least one
\* point; a polygon a flush appends is empty exactly when an earlier flush
\* has cleared the result set.
C9_EmptyOnlyByLaterFlush ==
  \A i \in 1..Len(polygons) :
    /\ emitted_by[i] = "rest" => polygons[i] # {}
    /\ emitted_by[i] = "flush" =>
         (polygons[i] = {} <=> \E j \in 1..(i - 1) : emitted_by[j] = "flush")

\* A returned sequence with an empty polygon from a second flush and a
\* polygon from the remaining-points block.
C9_Witness ==
  /\ pc = "done"
  /\ \E i \in 1..Len(out) : out[i] = {} /\ emitted_by[i] = "flush"
  /\ \E i \in 1..Len(out) : emitted_by[i] = "rest"

\* C10: every emitted polygon holds only seeded vertices, each is a subset
\* of the one before it and the result set a subset of the last, a polygon
\* emitted after a flush has no points, and there are at most as many
\* polygons as distinct seeded vertices.
C10_ResultNeverGrows ==
  /\ result \subseteq Vertices
  /\ \A i \in 1..Len(polygons) :
       /\ polygons[i] \subseteq Vertices
       /\ i > 1 => polygons[i] \subseteq polygons[i - 1]
       /\ (\E j \in 1..(i - 1) : emitted_by[j] = "flush") => polygons[i] = {}
  /\ polygons # <<>> => result \subseteq polygons[Len(polygons)]
  /\ Len(polygons) <= Cardinality(Vertices)
  /\ pc = "done" => out = polygons

\* A returned sequence of at least three polygons in which a removal made a
\* polygon smaller than the one before it and a flush emitted one.
C10_Witness ==
  /\ pc = "done"
  /\ Len(out) >= 3
  /\ \E i \in 2..Len(out) : out[i] # out[i - 1] /\ out[i] # {}
  /\ \E i \in 1..Len(out) : emitted_by[i] = "flush"

(*********************** witnesses: convex_hull ****************************)
\* A run on four or more points in convex position given in an order that
\* is not their y-sorted order.
C4_Witness ==
  /\ pc = "done"
  /\ Len(self) >= 4
  /\ ConvexPosition(self)
  /\ self # points

====
